---- MODULE Spec2Model ----
(***************************************************************************)
(* zippydb: the fluent query builder (Builder), the SQL renderer (Grammar) *)
(* and the execution port (IDriver) the builder awaits.                    *)
(*                                                                         *)
(* SQL text is modelled as text (TLA+ strings); JavaScript values that the *)
(* builder only passes through (where values, data values) are opaque      *)
(* tokens written as their literal text ("18", "'Jane'").  An optional     *)
(* number (number | null) is <<>> for null and <<n>> for the number n.     *)
(* An object literal (Partial<T>) is the sequence of its <<key, value>>    *)
(* pairs in Object.keys order.                                             *)
(***************************************************************************)
EXTENDS Integers, Sequences, FiniteSets, TLC

VARIABLES builders, calls, gram, run

vars == <<builders, calls, gram, run>>

(***************************************************************************)
(* Bounds of the model.                                                    *)
(***************************************************************************)
MaxBuilders == 2
MaxClauses == 2
MaxCalls == 1
MaxOpenClauses == 2
MaxArgs == 2
MaxScript == 3
MaxPairScript == 1

(***************************************************************************)
(* Text helpers: the JavaScript string and array methods the code uses.    *)
(***************************************************************************)
RECURSIVE join(_, _)
join(parts, sep) ==
    IF Len(parts) = 0 THEN ""
    ELSE IF Len(parts) = 1 THEN parts[1]
    ELSE parts[1] \o sep \o join(Tail(parts), sep)

StartsAt(s, t, i) ==
    /\ i >= 1
    /\ i + Len(t) - 1 <= Len(s)
    /\ SubSeq(s, i, i + Len(t) - 1) = t

Matches(s, t) == {i \in 1..Len(s) : StartsAt(s, t, i)}

includes(s, t) == Matches(s, t) # {}

indexOf(s, t) ==
    IF Matches(s, t) = {} THEN 0
    ELSE CHOOSE i \in Matches(s, t) : \A j \in Matches(s, t) : i <= j

replace(s, t, r) ==
    LET i == indexOf(s, t) IN
    IF i = 0 THEN s
    ELSE SubSeq(s, 1, i - 1) \o r \o SubSeq(s, i + Len(t), Len(s))

Lower == <<"a", "b", "c", "d", "e", "f", "g", "h", "i", "j", "k", "l", "m",
           "n", "o", "p", "q", "r", "s", "t", "u", "v", "w", "x", "y", "z">>

Upper == <<"A", "B", "C", "D", "E", "F", "G", "H", "I", "J", "K", "L", "M",
           "N", "O", "P", "Q", "R", "S", "T", "U", "V", "W", "X", "Y", "Z">>

UpperChar(c) ==
    IF \E k \in 1..Len(Lower) : Lower[k] = c
    THEN Upper[CHOOSE k \in 1..Len(Lower) : Lower[k] = c]
    ELSE c

RECURSIVE toUpperCase(_)
toUpperCase(s) ==
    IF Len(s) = 0 THEN ""
    ELSE UpperChar(SubSeq(s, 1, 1)) \o toUpperCase(SubSeq(s, 2, Len(s)))

\* `$${n}`: the placeholder text of index n
placeholder(n) == "$" \o ToString(n)

ObjectKeys(data) == [k \in 1..Len(data) |-> data[k][1]]

ObjectValues(data) == [k \in 1..Len(data) |-> data[k][2]]

(***************************************************************************)
(* Grammar                                                                 *)
(***************************************************************************)
compileSelect(table, columns) ==
    LET cols == IF Len(columns) > 0 THEN join(columns, ", ") ELSE "*" IN
    "SELECT " \o cols \o " FROM " \o table

\* fault model: placeholders numbered from 0
compileInsertZeroBased(table, data) ==
    LET keys == ObjectKeys(data)
        values == ObjectValues(data)
        placeholders == join([k \in 1..Len(keys) |-> placeholder(k - 1)], ", ")
    IN  [sql |-> "INSERT INTO " \o table \o " (" \o join(keys, ", ")
                 \o ") VALUES (" \o placeholders \o ") RETURNING *",
         values |-> values]

compileInsert(table, data) ==
    LET keys == ObjectKeys(data)
        values == ObjectValues(data)
        placeholders == join([k \in 1..Len(keys) |-> placeholder(k)], ", ")
    IN  [sql |-> "INSERT INTO " \o table \o " (" \o join(keys, ", ")
                 \o ") VALUES (" \o placeholders \o ") RETURNING *",
         values |-> values]

\* fault model: the WHERE placeholders restart at 1
updateWherePlaceholderRestarts(nkeys, k) == placeholder(k)

\* `$${keys.length + i + 1}` for the k-th where, k = i + 1
updateWherePlaceholder(nkeys, k) == placeholder(nkeys + k)

compileUpdate(table, data, wheres) ==
    LET keys == ObjectKeys(data)
        values == ObjectValues(data)
        setClause ==
            join([k \in 1..Len(keys) |-> keys[k] \o " = " \o placeholder(k)], ", ")
        sql == "UPDATE " \o table \o " SET " \o setClause
        whereClause ==
            join([k \in 1..Len(wheres) |->
                     wheres[k].column \o " " \o wheres[k].operator \o " "
                     \o updateWherePlaceholder(Len(keys), k)], " AND ")
    IN  [sql |-> IF Len(wheres) > 0 THEN sql \o " WHERE " \o whereClause ELSE sql,
         values |-> values]

\* fault model: a DELETE without predicates gets the clause WHERE TRUE
compileDeleteWhereTrue(table, wheres) ==
    LET sql == "DELETE FROM " \o table
        whereClause ==
            join([k \in 1..Len(wheres) |->
                     wheres[k].column \o " " \o wheres[k].operator \o " "
                     \o placeholder(k)], " AND ")
    IN  IF Len(wheres) > 0 THEN sql \o " WHERE " \o whereClause
        ELSE sql \o " WHERE TRUE"

compileDelete(table, wheres) ==
    LET sql == "DELETE FROM " \o table
        whereClause ==
            join([k \in 1..Len(wheres) |->
                     wheres[k].column \o " " \o wheres[k].operator \o " "
                     \o placeholder(k)], " AND ")
    IN  IF Len(wheres) > 0 THEN sql \o " WHERE " \o whereClause ELSE sql

(***************************************************************************)
(* Builder (the full-featured class): its fields and synchronous methods   *)
(* as functions of the instance's field record.                            *)
(***************************************************************************)
Null == <<>>

\* new Builder(driver): the field initialisers
NewBuilder ==
    [table |-> "", columns |-> <<"*">>, wheres |-> <<>>, orders |-> <<>>,
     limit |-> Null, offset |-> Null, distinct |-> FALSE, bindings |-> <<>>]

\* fault model: table() hands back a copy of the application's builder, renamed
tableClonesRoot(name) == [builders[1] EXCEPT !.table = name]

\* the instance table(name) returns
table(name) == [NewBuilder EXCEPT !.table = name]

\* fault model: select() appends to the projection list
selectAppends(b, columns) == [b EXCEPT !.columns = @ \o columns]

select(b, columns) == [b EXCEPT !.columns = columns]

\* fault model: distinct() flips the flag
distinctToggles(b) == [b EXCEPT !.distinct = ~@]

distinct(b) == [b EXCEPT !.distinct = TRUE]

where(b, column, operator, value) ==
    [b EXCEPT !.wheres = Append(@, [column |-> column, operator |-> operator,
                                    value |-> value]),
              !.bindings = Append(@, value)]

\* direction is <<>> when the argument is omitted (default "asc")
orderBy(b, column, direction) ==
    [b EXCEPT !.orders =
        Append(@, [column |-> column,
                   direction |-> IF direction = <<>> THEN "asc" ELSE direction[1]])]

limit(b, value) == [b EXCEPT !.limit = <<value>>]

offset(b, value) == [b EXCEPT !.offset = <<value>>]

\* fault model: the table check is missing
validateTableSkipped(b) == TRUE

\* TRUE when validateTable returns, FALSE when it throws
validateTable(b) == b.table # ""

\* fault model: the predicate is rendered with its value in place
compileWheresInline(b) ==
    IF Len(b.wheres) = 0 THEN ""
    ELSE " WHERE " \o join([k \in 1..Len(b.wheres) |->
                               b.wheres[k].column \o " " \o b.wheres[k].operator
                               \o " " \o b.wheres[k].value], " AND ")

compileWheres(b) ==
    IF Len(b.wheres) = 0 THEN ""
    ELSE " WHERE " \o
         join([k \in 1..Len(b.wheres) |->
                  b.wheres[k].column \o " " \o b.wheres[k].operator \o " "
                  \o placeholder(k)], " AND ")

compileOrders(b) ==
    IF Len(b.orders) = 0 THEN ""
    ELSE " ORDER BY " \o
         join([k \in 1..Len(b.orders) |->
                  b.orders[k].column \o " " \o toUpperCase(b.orders[k].direction)],
              ", ")

\* fault model: reset also clears _table
resetClearsTable(b) ==
    [b EXCEPT !.table = "", !.wheres = <<>>, !.bindings = <<>>, !.columns = <<"*">>,
              !.limit = Null, !.offset = Null, !.orders = <<>>, !.distinct = FALSE]

\* fault model: reset forgets _bindings
resetKeepsBindings(b) ==
    [b EXCEPT !.wheres = <<>>, !.columns = <<"*">>, !.limit = Null, !.offset = Null,
              !.orders = <<>>, !.distinct = FALSE]

\* fault model: reset forgets _orders
resetKeepsOrders(b) ==
    [b EXCEPT !.wheres = <<>>, !.bindings = <<>>, !.columns = <<"*">>,
              !.limit = Null, !.offset = Null, !.distinct = FALSE]

reset(b) ==
    [b EXCEPT !.wheres = <<>>, !.bindings = <<>>, !.columns = <<"*">>,
              !.limit = Null, !.offset = Null, !.orders = <<>>,
              !.distinct = FALSE]

\* fault model: OFFSET is appended before LIMIT
getSqlOffsetFirst(b) ==
    LET sql0 == compileSelect(b.table, b.columns)
        sql1 == IF b.distinct THEN replace(sql0, "SELECT", "SELECT DISTINCT") ELSE sql0
        sql2 == sql1 \o compileWheres(b)
        sql3 == sql2 \o compileOrders(b)
        sql4 == IF b.offset # Null THEN sql3 \o " OFFSET " \o ToString(b.offset[1]) ELSE sql3
    IN  IF b.limit # Null THEN sql4 \o " LIMIT " \o ToString(b.limit[1]) ELSE sql4

\* fault model: LIMIT and OFFSET are tested for truthiness, so 0 is left out
getSqlTruthy(b) ==
    LET sql0 == compileSelect(b.table, b.columns)
        sql1 == IF b.distinct THEN replace(sql0, "SELECT", "SELECT DISTINCT") ELSE sql0
        sql2 == sql1 \o compileWheres(b)
        sql3 == sql2 \o compileOrders(b)
        sql4 == IF b.limit # Null /\ b.limit[1] # 0
                THEN sql3 \o " LIMIT " \o ToString(b.limit[1]) ELSE sql3
    IN  IF b.offset # Null /\ b.offset[1] # 0
        THEN sql4 \o " OFFSET " \o ToString(b.offset[1]) ELSE sql4

\* get(), up to its await: the SQL text it builds
getSql(b) ==
    LET sql0 == compileSelect(b.table, b.columns)
        sql1 == IF b.distinct THEN replace(sql0, "SELECT", "SELECT DISTINCT") ELSE sql0
        sql2 == sql1 \o compileWheres(b)
        sql3 == sql2 \o compileOrders(b)
        sql4 == IF b.limit # Null THEN sql3 \o " LIMIT " \o ToString(b.limit[1]) ELSE sql3
    IN  IF b.offset # Null THEN sql4 \o " OFFSET " \o ToString(b.offset[1]) ELSE sql4

\* fault model: count() goes through the ORDER BY compilation as get() does
countSqlWithOrders(b) ==
    "SELECT COUNT(*) as count FROM " \o b.table \o compileWheres(b) \o compileOrders(b)

\* count(), up to its await
countSql(b) == "SELECT COUNT(*) as count FROM " \o b.table \o compileWheres(b)

\* fault model: the where bindings come first
updateParamsWheresFirst(b, data) ==
    b.bindings \o compileUpdate(b.table, data, b.wheres).values

\* update(), up to its await: the arguments of execute
updateParams(b, data) == compileUpdate(b.table, data, b.wheres).values \o b.bindings

(***************************************************************************)
(* The execution port's answers.  A row is an opaque token; rowCount is    *)
(* its `count` field (pg returns a row count as text).                     *)
(***************************************************************************)
Rows == {"r1", "r2"}

ResultSets == {<<>>, <<"r1">>, <<"r1", "r2">>}

rowCount(row) == IF row = "r1" THEN "2" ELSE "10"

\* result[0]: the token "undefined" when the array is empty
first0(rows) == IF Len(rows) > 0 THEN rows[1] ELSE "undefined"

DigitChars == <<"0", "1", "2", "3", "4", "5", "6", "7", "8", "9">>

IsDigit(c) == \E d \in 1..Len(DigitChars) : DigitChars[d] = c

DigitVal(c) == (CHOOSE d \in 1..Len(DigitChars) : DigitChars[d] = c) - 1

RECURSIVE parseDigits(_, _)
parseDigits(s, acc) ==
    IF Len(s) > 0 /\ IsDigit(SubSeq(s, 1, 1))
    THEN parseDigits(SubSeq(s, 2, Len(s)), acc * 10 + DigitVal(SubSeq(s, 1, 1)))
    ELSE acc

\* parseInt(s, 10) of a text without sign or leading blanks: <<>> is NaN
parseInt(s) ==
    IF Len(s) > 0 /\ IsDigit(SubSeq(s, 1, 1)) THEN <<parseDigits(s, 0)>> ELSE <<>>

(***************************************************************************)
(* State.  builders[i] is the field record of the i-th Builder instance    *)
(* (builders[1] is the one the application constructs).  calls holds the   *)
(* terminal calls whose promise the caller has not yet consumed: a call    *)
(* is "pending" while it awaits driver.execute and settled otherwise.      *)
(*   sql, params  the arguments of the call's latest driver.execute        *)
(*   shared       params is the instance's _bindings array itself          *)
(*   log          every call of a driver method the call makes, with its   *)
(*                (sql, params) as they were when handed over              *)
(*   before, cfg  the instance's fields when the call was entered, and     *)
(*                when it last called execute or failed its usage check    *)
(*   rest, acc    createMany's remaining items and collected results       *)
(*   answers      the rows the driver resolved each execute of the call    *)
(*                with, in order                                           *)
(***************************************************************************)
NoValue == [kind |-> "none", rows |-> <<>>, num |-> <<>>]

Call(i, op, b0, b, data) ==
    [inst |-> i, op |-> op, status |-> "pending", sql |-> "", params |-> <<>>,
     shared |-> FALSE, log |-> <<>>, before |-> b0, cfg |-> b, data |-> data,
     rest |-> <<>>, acc |-> <<>>, answers |-> <<>>, value |-> NoValue]

\* the call throws a usage error before any await
Thrown(c, error) == [c EXCEPT !.status = error, !.value = [NoValue EXCEPT !.kind = "error"]]

\* the call hands (sql, params) to driver.execute and suspends
Execute(c, sql, params, shared) ==
    [c EXCEPT !.sql = sql, !.params = params, !.shared = shared,
              !.log = Append(@, [method |-> "execute", sql |-> sql, params |-> params])]

NoGram ==
    [fn |-> "none", table |-> "", columns |-> <<>>, data |-> <<>>, wheres |-> <<>>,
     sql |-> "", values |-> <<>>]

NoRun == [script |-> <<>>, op |-> <<"get">>, pos |-> 0]

Init ==
    /\ builders = <<NewBuilder>>
    /\ calls = <<>>
    /\ gram = NoGram
    /\ run = NoRun

Instances == DOMAIN builders

(***************************************************************************)
(* Fluent configuration methods                                            *)
(***************************************************************************)
\* a push onto _bindings is seen by every suspended call that handed that
\* very array to execute
Pushed(i, value) ==
    [k \in DOMAIN calls |->
        IF calls[k].inst = i /\ calls[k].status = "pending" /\ calls[k].shared
        THEN [calls[k] EXCEPT !.params = Append(@, value)]
        ELSE calls[k]]

Table(i, name) ==
    /\ builders' = Append(builders, table(name))
    /\ UNCHANGED <<calls, gram, run>>

Select(i, columns) ==
    /\ builders' = [builders EXCEPT ![i] = select(@, columns)]
    /\ UNCHANGED <<calls, gram, run>>

Distinct(i) ==
    /\ builders' = [builders EXCEPT ![i] = distinct(@)]
    /\ UNCHANGED <<calls, gram, run>>

Where(i, column, operator, value) ==
    /\ builders' = [builders EXCEPT ![i] = where(@, column, operator, value)]
    /\ calls' = Pushed(i, value)
    /\ UNCHANGED <<gram, run>>

OrderBy(i, column, direction) ==
    /\ builders' = [builders EXCEPT ![i] = orderBy(@, column, direction)]
    /\ UNCHANGED <<calls, gram, run>>

Limit(i, value) ==
    /\ builders' = [builders EXCEPT ![i] = limit(@, value)]
    /\ UNCHANGED <<calls, gram, run>>

Offset(i, value) ==
    /\ builders' = [builders EXCEPT ![i] = offset(@, value)]
    /\ UNCHANGED <<calls, gram, run>>

(***************************************************************************)
(* Terminal operations: each action is the call up to its first await.     *)
(***************************************************************************)
Returned(c, kind, rows, num) ==
    [c EXCEPT !.status = "ok", !.value = [kind |-> kind, rows |-> rows, num |-> num]]

\* get() called on field record b, for the call record c
getEnter(c, b) ==
    IF validateTable(b) THEN Execute(c, getSql(b), b.bindings, TRUE)
    ELSE Thrown(c, "NoTable")

\* fault model: create() appends the accumulated where bindings to its params
createEnterWithBindings(c, b, data) ==
    IF validateTable(b)
    THEN Execute(c, compileInsert(b.table, data).sql,
                 compileInsert(b.table, data).values \o b.bindings, FALSE)
    ELSE Thrown(c, "NoTable")

\* create(data) called on field record b, for the call record c
createEnter(c, b, data) ==
    IF validateTable(b)
    THEN Execute(c, compileInsert(b.table, data).sql,
                 compileInsert(b.table, data).values, FALSE)
    ELSE Thrown(c, "NoTable")

getCall(i) ==
    LET b == builders[i] IN getEnter(Call(i, "get", b, b, <<>>), b)

\* first(): this.limit(1) has run when get() is entered
firstCall(i) ==
    LET b == builders[i] IN getEnter(Call(i, "first", b, limit(b, 1), <<>>), limit(b, 1))

countCall(i) ==
    LET b == builders[i]
        c == Call(i, "count", b, b, <<>>)
    IN  IF validateTable(b) THEN Execute(c, countSql(b), b.bindings, TRUE)
        ELSE Thrown(c, "NoTable")

createCall(i, data) ==
    LET b == builders[i] IN createEnter(Call(i, "create", b, b, data), b, data)

\* fault model: createMany() walks the list from its last element
createManyCallLastFirst(i, list) ==
    LET b == builders[i]
        c == Call(i, "createMany", b, b, list)
    IN  IF ~validateTable(b) THEN Thrown(c, "NoTable")
        ELSE IF Len(list) = 0 THEN Returned(c, "rows", <<>>, <<>>)
        ELSE createEnter([c EXCEPT !.rest = SubSeq(list, 1, Len(list) - 1)],
                         b, list[Len(list)])

createManyCall(i, list) ==
    LET b == builders[i]
        c == Call(i, "createMany", b, b, list)
    IN  IF ~validateTable(b) THEN Thrown(c, "NoTable")
        ELSE IF Len(list) = 0 THEN Returned(c, "rows", <<>>, <<>>)
        ELSE createEnter([c EXCEPT !.rest = Tail(list)], b, Head(list))

\* fault model: update() has no check of the data's keys
updateCallUnchecked(i, data) ==
    LET b == builders[i]
        c == Call(i, "update", b, b, data)
    IN  IF ~validateTable(b) THEN Thrown(c, "NoTable")
        ELSE Execute(c, compileUpdate(b.table, data, b.wheres).sql,
                     updateParams(b, data), FALSE)

updateCall(i, data) ==
    LET b == builders[i]
        c == Call(i, "update", b, b, data)
    IN  IF ~validateTable(b) THEN Thrown(c, "NoTable")
        ELSE IF Len(ObjectKeys(data)) = 0 THEN Thrown(c, "NoData")
        ELSE Execute(c, compileUpdate(b.table, data, b.wheres).sql,
                     updateParams(b, data), FALSE)

deleteCall(i) ==
    LET b == builders[i]
        c == Call(i, "delete", b, b, <<>>)
    IN  IF validateTable(b)
        THEN Execute(c, compileDelete(b.table, b.wheres), b.bindings, TRUE)
        ELSE Thrown(c, "NoTable")

Get(i) ==
    /\ calls' = Append(calls, getCall(i))
    /\ UNCHANGED <<builders, gram, run>>

First(i) ==
    /\ builders' = [builders EXCEPT ![i] = limit(@, 1)]
    /\ calls' = Append(calls, firstCall(i))
    /\ UNCHANGED <<gram, run>>

Count(i) ==
    /\ calls' = Append(calls, countCall(i))
    /\ UNCHANGED <<builders, gram, run>>

Create(i, data) ==
    /\ calls' = Append(calls, createCall(i, data))
    /\ UNCHANGED <<builders, gram, run>>

\* fault model: createMany() resets the instance before it returns
CreateManyResets(i, list) ==
    /\ calls' = Append(calls, createManyCall(i, list))
    /\ builders' = IF Len(list) = 0 /\ validateTable(builders[i])
                   THEN [builders EXCEPT ![i] = reset(@)] ELSE builders
    /\ UNCHANGED <<gram, run>>

CreateMany(i, list) ==
    /\ calls' = Append(calls, createManyCall(i, list))
    /\ UNCHANGED <<builders, gram, run>>

Update(i, data) ==
    /\ calls' = Append(calls, updateCall(i, data))
    /\ UNCHANGED <<builders, gram, run>>

Delete(i) ==
    /\ calls' = Append(calls, deleteCall(i))
    /\ UNCHANGED <<builders, gram, run>>

(***************************************************************************)
(* The driver answers a pending execute and the call runs on from its      *)
(* await to its return (or, in createMany, to its next await).             *)
(***************************************************************************)
\* what the call does with the rows once reset() has run on field record b
afterReset(c, b, rows) ==
    CASE c.op = "get" -> Returned(c, "rows", rows, <<>>)
      [] c.op = "update" -> Returned(c, "rows", rows, <<>>)
      [] c.op = "delete" -> Returned(c, "void", <<>>, <<>>)
      [] c.op = "first" ->
            IF Len(rows) > 0 THEN Returned(c, "row", <<rows[1]>>, <<>>)
            ELSE Returned(c, "null", <<>>, <<>>)
      [] c.op = "count" ->
            IF Len(rows) > 0
            THEN Returned(c, "number", <<>>, parseInt(rowCount(rows[1])))
            ELSE Thrown(c, "TypeError")
      [] c.op = "create" -> Returned(c, "row", <<first0(rows)>>, <<>>)
      [] c.op = "createMany" ->
            LET results == Append(c.acc, first0(rows)) IN
            IF Len(c.rest) = 0 THEN Returned(c, "rows", results, <<>>)
            ELSE createEnter([c EXCEPT !.acc = results, !.rest = Tail(@), !.cfg = b],
                             b, Head(c.rest))

\* fault model: the query state is one object shared by all instances
ExecuteResolvesResetsAll(k, rows) ==
    LET c == [calls[k] EXCEPT !.answers = Append(@, rows)]
        b == reset(builders[c.inst])
    IN  /\ c.status = "pending"
        /\ builders' = [j \in DOMAIN builders |-> reset(builders[j])]
        /\ calls' = [j \in DOMAIN calls |->
                        IF j = k THEN afterReset(c, b, rows)
                        ELSE [calls[j] EXCEPT !.shared = FALSE]]
        /\ UNCHANGED <<gram, run>>

\* fault model: count() reads result[0].count before it resets
ExecuteResolvesReadsFirst(k, rows) ==
    LET c == [calls[k] EXCEPT !.answers = Append(@, rows)]
        i == c.inst
        fails == c.op = "count" /\ Len(rows) = 0
        b == IF fails THEN builders[i] ELSE reset(builders[i])
    IN  /\ c.status = "pending"
        /\ builders' = [builders EXCEPT ![i] = b]
        /\ calls' = [j \in DOMAIN calls |->
                        IF j = k THEN afterReset(c, b, rows)
                        ELSE IF calls[j].inst = i /\ ~fails
                             THEN [calls[j] EXCEPT !.shared = FALSE]
                             ELSE calls[j]]
        /\ UNCHANGED <<gram, run>>

\* fault model: the call resets only what it compiled, and keeps what was
\* configured while it was suspended
ExecuteResolvesKeepsLater(k, rows) ==
    LET c == [calls[k] EXCEPT !.answers = Append(@, rows)]
        i == c.inst
        b == IF builders[i] = c.cfg THEN reset(builders[i]) ELSE builders[i]
    IN  /\ c.status = "pending"
        /\ builders' = [builders EXCEPT ![i] = b]
        /\ calls' = [j \in DOMAIN calls |->
                        IF j = k THEN afterReset(c, b, rows)
                        ELSE IF calls[j].inst = i
                             THEN [calls[j] EXCEPT !.shared = FALSE]
                             ELSE calls[j]]
        /\ UNCHANGED <<gram, run>>

ExecuteResolves(k, rows) ==
    LET c == [calls[k] EXCEPT !.answers = Append(@, rows)]
        i == c.inst
        b == reset(builders[i])
    IN  /\ c.status = "pending"
        /\ builders' = [builders EXCEPT ![i] = b]
        /\ calls' = [j \in DOMAIN calls |->
                        IF j = k THEN afterReset(c, b, rows)
                        ELSE IF calls[j].inst = i
                             THEN [calls[j] EXCEPT !.shared = FALSE]
                             ELSE calls[j]]
        /\ UNCHANGED <<gram, run>>

(***************************************************************************)
(* The simple Builder variant: it has only _table, _wheres and _bindings   *)
(* (the other fields of the record stay at their defaults), get() takes    *)
(* no projection, first() sets no limit and reset() clears the two lists.  *)
(***************************************************************************)
simpleReset(b) == [b EXCEPT !.wheres = <<>>, !.bindings = <<>>]

simpleGetSql(b) == compileSelect(b.table, <<"*">>) \o compileWheres(b)

simpleGetEnter(c, b) ==
    IF validateTable(b) THEN Execute(c, simpleGetSql(b), b.bindings, TRUE)
    ELSE Thrown(c, "NoTable")

SimpleGet(i) ==
    /\ calls' = Append(calls, simpleGetEnter(Call(i, "get", builders[i], builders[i], <<>>),
                                             builders[i]))
    /\ UNCHANGED <<builders, gram, run>>

SimpleFirst(i) ==
    /\ calls' = Append(calls, simpleGetEnter(Call(i, "first", builders[i], builders[i], <<>>),
                                             builders[i]))
    /\ UNCHANGED <<builders, gram, run>>

SimpleExecuteResolves(k, rows) ==
    LET c == [calls[k] EXCEPT !.answers = Append(@, rows)]
        i == c.inst
        b == simpleReset(builders[i])
    IN  /\ c.status = "pending"
        /\ builders' = [builders EXCEPT ![i] = b]
        /\ calls' = [j \in DOMAIN calls |->
                        IF j = k THEN afterReset(c, b, rows)
                        ELSE IF calls[j].inst = i
                             THEN [calls[j] EXCEPT !.shared = FALSE]
                             ELSE calls[j]]
        /\ UNCHANGED <<gram, run>>

\* fault model: the call resets in a finally block
ExecuteRejectsAndResets(k) ==
    /\ calls[k].status = "pending"
    /\ calls' = [calls EXCEPT ![k] = Thrown(@, "DriverError")]
    /\ builders' = [builders EXCEPT ![calls[k].inst] = reset(@)]
    /\ UNCHANGED <<gram, run>>

\* fault model: a failed execute is tried once more
ExecuteRejectsRetries(k) ==
    /\ calls[k].status = "pending"
    /\ calls' = [calls EXCEPT ![k] =
                    IF Len(@.log) < 2 THEN Execute(@, @.sql, @.params, @.shared)
                    ELSE Thrown(@, "DriverError")]
    /\ UNCHANGED <<builders, gram, run>>

\* fault model: createMany() catches the error of an item and goes on
ExecuteRejectsSkipsItem(k) ==
    /\ calls[k].status = "pending"
    /\ calls' = [calls EXCEPT ![k] =
                    IF @.op = "createMany" /\ Len(@.rest) > 0
                    THEN createEnter([@ EXCEPT !.rest = Tail(@)],
                                     builders[@.inst], Head(@.rest))
                    ELSE Thrown(@, "DriverError")]
    /\ UNCHANGED <<builders, gram, run>>

ExecuteRejects(k) ==
    /\ calls[k].status = "pending"
    /\ calls' = [calls EXCEPT ![k] = Thrown(@, "DriverError")]
    /\ UNCHANGED <<builders, gram, run>>

\* the caller's await takes the settled promise
Resume(k) ==
    /\ calls[k].status # "pending"
    /\ calls' = [j \in 1..(Len(calls) - 1) |-> IF j < k THEN calls[j] ELSE calls[j + 1]]
    /\ UNCHANGED <<builders, gram, run>>

(***************************************************************************)
(* Grammar called directly (its methods are public and pure).              *)
(***************************************************************************)
CompileSelect(tbl, columns) ==
    /\ gram' = [NoGram EXCEPT !.fn = "compileSelect", !.table = tbl,
                              !.columns = columns,
                              !.sql = compileSelect(tbl, columns)]
    /\ UNCHANGED <<builders, calls, run>>

CompileInsert(tbl, data) ==
    /\ gram' = [NoGram EXCEPT !.fn = "compileInsert", !.table = tbl, !.data = data,
                              !.sql = compileInsert(tbl, data).sql,
                              !.values = compileInsert(tbl, data).values]
    /\ UNCHANGED <<builders, calls, run>>

CompileUpdate(tbl, data, wheres) ==
    /\ gram' = [NoGram EXCEPT !.fn = "compileUpdate", !.table = tbl, !.data = data,
                              !.wheres = wheres,
                              !.sql = compileUpdate(tbl, data, wheres).sql,
                              !.values = compileUpdate(tbl, data, wheres).values]
    /\ UNCHANGED <<builders, calls, run>>

CompileDelete(tbl, wheres) ==
    /\ gram' = [NoGram EXCEPT !.fn = "compileDelete", !.table = tbl,
                              !.wheres = wheres,
                              !.sql = compileDelete(tbl, wheres)]
    /\ UNCHANGED <<builders, calls, run>>

(***************************************************************************)
(* Inputs the callers draw from, and the exploration bounds.               *)
(***************************************************************************)
SeqsUpTo(S, n) == UNION {[1..m -> S] : m \in 0..n}

Clauses(b) ==
    Len(b.wheres) + Len(b.orders) + Len(b.limit) + Len(b.offset)
    + (IF b.distinct THEN 1 ELSE 0) + (IF b.columns # <<"*">> THEN 1 ELSE 0)

RECURSIVE TotalClauses(_)
TotalClauses(bs) == IF bs = <<>> THEN 0 ELSE Clauses(Head(bs)) + TotalClauses(Tail(bs))

\* the README's examples: users by age, ordered, paged; an update of name and age
RichInputs ==
    [tables  |-> {"users"},
     selects |-> {<<>>, <<"*">>, <<"name", "age">>},
     wheres  |-> {<<"age", ">", "18">>, <<"id", "=", "1">>},
     orders  |-> {<<"created_at", <<"desc">>>>, <<"name", <<>>>>},
     limits  |-> {10, 0, -1},
     offsets |-> {5, 0},
     datas   |-> {<<>>, <<<<"name", "'Jane'">>, <<"age", "31">>>>},
     lists   |-> {<<>>, <<<<<<"age", "31">>>>>>,
                  <<<<<<"age", "31">>>>, <<<<"name", "'Jane'">>, <<"age", "31">>>>>>},
     results |-> ResultSets]

SmallInputs ==
    [tables  |-> {"users", "other"},
     selects |-> {<<"name">>},
     wheres  |-> {<<"age", ">", "18">>, <<"id", "=", "1">>},
     orders  |-> {<<"name", <<"desc">>>>},
     limits  |-> {10},
     offsets |-> {5},
     datas   |-> {<<>>, <<<<"age", "31">>>>},
     lists   |-> {<<>>, <<<<<<"age", "31">>>>, <<<<"name", "'Jane'">>>>>>},
     results |-> {<<>>, <<"r1">>}]

\* A caller's step.  An awaiting caller does nothing while a call of its is
\* open and uses the builder as the README does: it configures only the
\* instances table() gave it, one query at a time; its where and orderBy
\* lists are cut at maxClauses entries.  Other callers are cut at maxClauses
\* configured clauses over all instances.
Caller(In, awaiting, maxClauses) ==
    LET free == IF awaiting THEN calls = <<>> ELSE Len(calls) < MaxCalls
        conf(i) ==
            IF awaiting
            THEN /\ calls = <<>>
                 /\ i # 1
                 /\ \A j \in Instances \ {i} : Clauses(builders[j]) = 0
            ELSE TotalClauses(builders) < maxClauses
        grow(i) ==
            /\ conf(i)
            /\ awaiting => Len(builders[i].wheres) + Len(builders[i].orders) < maxClauses
    IN
    \/ \E i \in Instances, name \in In.tables :
          /\ awaiting => calls = <<>>
          /\ Len(builders) < MaxBuilders
          /\ Table(i, name)
    \/ \E i \in Instances, columns \in In.selects : conf(i) /\ Select(i, columns)
    \/ \E i \in Instances : conf(i) /\ Distinct(i)
    \/ \E i \in Instances, w \in In.wheres : grow(i) /\ Where(i, w[1], w[2], w[3])
    \/ \E i \in Instances, o \in In.orders : grow(i) /\ OrderBy(i, o[1], o[2])
    \/ \E i \in Instances, n \in In.limits : conf(i) /\ Limit(i, n)
    \/ \E i \in Instances, n \in In.offsets : conf(i) /\ Offset(i, n)
    \/ \E i \in Instances : free /\ Get(i)
    \/ \E i \in Instances : free /\ First(i)
    \/ \E i \in Instances : free /\ Count(i)
    \/ \E i \in Instances, data \in In.datas : free /\ Create(i, data)
    \/ \E i \in Instances, list \in In.lists : free /\ CreateMany(i, list)
    \/ \E i \in Instances, data \in In.datas : free /\ Update(i, data)
    \/ \E i \in Instances : free /\ Delete(i)

Driver(In) ==
    \/ \E k \in DOMAIN calls, rows \in In.results : ExecuteResolves(k, rows)
    \/ \E k \in DOMAIN calls : ExecuteRejects(k)

\* any callers: configuration and further terminal calls while calls are suspended
Next ==
    \/ Caller(SmallInputs, FALSE, MaxOpenClauses)
    \/ Driver(SmallInputs)
    \/ \E k \in DOMAIN calls : Resume(k)

Spec == Init /\ [][Next]_vars

\* a caller that awaits every terminal call before its next step
NextAwait ==
    \/ Caller(RichInputs, TRUE, MaxClauses)
    \/ Driver(RichInputs)
    \/ \E k \in DOMAIN calls : Resume(k)

SpecAwait == Init /\ [][NextAwait]_vars

\* the simple variant under a caller that awaits every terminal call
NextSimple ==
    \/ \E name \in RichInputs.tables :
          calls = <<>> /\ Len(builders) < MaxBuilders /\ Table(1, name)
    \/ \E i \in Instances, w \in RichInputs.wheres :
          /\ calls = <<>>
          /\ Len(builders[i].wheres) < MaxClauses + 1
          /\ Where(i, w[1], w[2], w[3])
    \/ \E i \in Instances : calls = <<>> /\ SimpleGet(i)
    \/ \E i \in Instances : calls = <<>> /\ SimpleFirst(i)
    \/ \E k \in DOMAIN calls, rows \in RichInputs.results : SimpleExecuteResolves(k, rows)
    \/ \E k \in DOMAIN calls : ExecuteRejects(k)
    \/ \E k \in DOMAIN calls : Resume(k)

SpecSimple == Init /\ [][NextSimple]_vars

(***************************************************************************)
(* Grammar's methods called with arguments of every shape up to MaxArgs    *)
(* entries, directly and (compileInsert) through create().                 *)
(***************************************************************************)
GrammarTables == {"users", "T"}

GrammarWheres ==
    SeqsUpTo({[column |-> "age", operator |-> ">", value |-> "18"],
              [column |-> "id", operator |-> "=", value |-> "1"]}, MaxArgs)

GrammarDatas ==
    {d \in SeqsUpTo({"name", "age", "email"} \X {"'Jane'", "31"}, MaxArgs) :
        \A j, k \in DOMAIN d : j # k => d[j][1] # d[k][1]}

GrammarColumns == SeqsUpTo({"*", "name", "age"}, MaxArgs)

NextGrammar ==
    \/ \E t \in GrammarTables, columns \in GrammarColumns :
          calls = <<>> /\ Len(builders) = 1 /\ CompileSelect(t, columns)
    \/ \E t \in GrammarTables, data \in GrammarDatas :
          calls = <<>> /\ Len(builders) = 1 /\ CompileInsert(t, data)
    \/ \E t \in GrammarTables, data \in GrammarDatas, wheres \in GrammarWheres :
          calls = <<>> /\ Len(builders) = 1 /\ CompileUpdate(t, data, wheres)
    \/ \E t \in GrammarTables, wheres \in GrammarWheres :
          calls = <<>> /\ Len(builders) = 1 /\ CompileDelete(t, wheres)
    \/ Len(builders) < MaxBuilders /\ Table(1, "users")
    \/ \E i \in Instances, data \in GrammarDatas : calls = <<>> /\ Create(i, data)
    \/ \E k \in DOMAIN calls : ExecuteResolves(k, <<"r1">>)
    \/ \E k \in DOMAIN calls : Resume(k)

SpecGrammar == Init /\ [][NextGrammar]_vars

(***************************************************************************)
(* One instance configured by a script of fluent calls, a terminal call,   *)
(* and, once that call has returned or failed, the same script and the     *)
(* same terminal call again.  The caller keeps both promises (calls[1],    *)
(* calls[2]).                                                              *)
(***************************************************************************)
Fluents(In) ==
    {<<"select", c>> : c \in In.selects} \cup {<<"distinct">>}
    \cup {<<"where", w[1], w[2], w[3]>> : w \in In.wheres}
    \cup {<<"orderBy", o[1], o[2]>> : o \in In.orders}
    \cup {<<"limit", n>> : n \in In.limits}
    \cup {<<"offset", n>> : n \in In.offsets}

Terminals(In) ==
    {<<"get">>, <<"first">>, <<"count">>, <<"delete">>}
    \cup {<<"create", d>> : d \in In.datas}
    \cup {<<"update", d>> : d \in In.datas}
    \cup {<<"createMany", l>> : l \in In.lists}

\* the fluent call f made on field record b
fluent(b, f) ==
    CASE f[1] = "select" -> select(b, f[2])
      [] f[1] = "distinct" -> distinct(b)
      [] f[1] = "where" -> where(b, f[2], f[3], f[4])
      [] f[1] = "orderBy" -> orderBy(b, f[2], f[3])
      [] f[1] = "limit" -> limit(b, f[2])
      [] f[1] = "offset" -> offset(b, f[2])

\* the terminal call t made on instance i
terminalCall(i, t) ==
    CASE t[1] = "get" -> getCall(i)
      [] t[1] = "first" -> firstCall(i)
      [] t[1] = "count" -> countCall(i)
      [] t[1] = "delete" -> deleteCall(i)
      [] t[1] = "create" -> createCall(i, t[2])
      [] t[1] = "update" -> updateCall(i, t[2])
      [] t[1] = "createMany" -> createManyCall(i, t[2])

InitCycle ==
    /\ builders = <<NewBuilder>>
    /\ calls = <<>>
    /\ gram = NoGram
    /\ run \in [script : SeqsUpTo(Fluents(SmallInputs), MaxScript),
                op : Terminals(SmallInputs), pos : {0}]

CycleReady ==
    /\ Len(builders) = 2
    /\ calls = <<>> \/ (Len(calls) = 1 /\ calls[1].status # "pending")

CycleTable ==
    /\ run.pos = 0
    /\ builders' = Append(builders, table("users"))
    /\ run' = [run EXCEPT !.pos = 1]
    /\ UNCHANGED <<calls, gram>>

CycleConfigure ==
    /\ CycleReady
    /\ run.pos \in 1..Len(run.script)
    /\ builders' = [builders EXCEPT ![2] = fluent(@, run.script[run.pos])]
    /\ run' = [run EXCEPT !.pos = @ + 1]
    /\ UNCHANGED <<calls, gram>>

CycleCall ==
    /\ CycleReady
    /\ run.pos = Len(run.script) + 1
    /\ builders' = IF run.op[1] = "first"
                   THEN [builders EXCEPT ![2] = limit(@, 1)] ELSE builders
    /\ calls' = Append(calls, terminalCall(2, run.op))
    /\ run' = [run EXCEPT !.pos = IF calls = <<>> THEN 1 ELSE @ + 1]
    /\ UNCHANGED gram

NextCycle ==
    \/ CycleTable
    \/ CycleConfigure
    \/ CycleCall
    \/ Driver(SmallInputs)

SpecCycle == InitCycle /\ [][NextCycle]_vars

\* the caller goes through with its run and the driver answers every execute
SpecCycleFair == SpecCycle /\ WF_vars(NextCycle)

(***************************************************************************)
(* Two runs in step: instances 2 and 3 take the same script and the same   *)
(* terminal call, the second with another value in every where() and in    *)
(* every data map.  The driver answers the two calls independently.        *)
(***************************************************************************)
OtherValue(v) == v \o " OR 1=1"

twinData(d) == [k \in 1..Len(d) |-> <<d[k][1], OtherValue(d[k][2])>>]

twinFluent(f) ==
    IF f[1] = "where" THEN <<"where", f[2], f[3], OtherValue(f[4])>> ELSE f

twinTerminal(t) ==
    CASE t[1] \in {"create", "update"} -> <<t[1], twinData(t[2])>>
      [] t[1] = "createMany" -> <<t[1], [n \in 1..Len(t[2]) |-> twinData(t[2][n])]>>
      [] OTHER -> t

TwinTable ==
    /\ run.pos = 0
    /\ builders' = builders \o <<table("users"), table("users")>>
    /\ run' = [run EXCEPT !.pos = 1]
    /\ UNCHANGED <<calls, gram>>

TwinConfigure ==
    /\ run.pos \in 1..Len(run.script)
    /\ builders' = [builders EXCEPT ![2] = fluent(@, run.script[run.pos]),
                                    ![3] = fluent(@, twinFluent(run.script[run.pos]))]
    /\ run' = [run EXCEPT !.pos = @ + 1]
    /\ UNCHANGED <<calls, gram>>

TwinCall ==
    /\ run.pos = Len(run.script) + 1
    /\ builders' = IF run.op[1] = "first"
                   THEN [builders EXCEPT ![2] = limit(@, 1), ![3] = limit(@, 1)]
                   ELSE builders
    /\ calls' = <<terminalCall(2, run.op), terminalCall(3, twinTerminal(run.op))>>
    /\ run' = [run EXCEPT !.pos = @ + 1]
    /\ UNCHANGED gram

NextTwin ==
    \/ TwinTable
    \/ TwinConfigure
    \/ TwinCall
    \/ Driver(SmallInputs)

SpecTwin == InitCycle /\ [][NextTwin]_vars

(***************************************************************************)
(* Two instances obtained by table() from the root, each configured by its *)
(* own script and making its own terminal call; the steps of the two and   *)
(* the driver's answers interleave freely (the README's Promise.all).      *)
(* Instance j + 1 runs run.scripts[j] and run.ops[j].                      *)
(***************************************************************************)
PairTables == <<"users", "other">>

InitPair ==
    /\ builders = <<NewBuilder>>
    /\ calls = <<>>
    /\ gram = NoGram
    /\ run \in [scripts : SeqsUpTo(Fluents(SmallInputs), MaxPairScript)
                           \X SeqsUpTo(Fluents(SmallInputs), MaxPairScript),
                 ops : Terminals(SmallInputs) \X Terminals(SmallInputs),
                 pos : {<<0, 0>>}]

PairTable ==
    /\ run.pos = <<0, 0>>
    /\ builders' = builders \o <<table(PairTables[1]), table(PairTables[2])>>
    /\ run' = [run EXCEPT !.pos = <<1, 1>>]
    /\ UNCHANGED <<calls, gram>>

PairConfigure(j) ==
    /\ run.pos[j] \in 1..Len(run.scripts[j])
    /\ builders' = [builders EXCEPT ![j + 1] = fluent(@, run.scripts[j][run.pos[j]])]
    /\ run' = [run EXCEPT !.pos[j] = @ + 1]
    /\ UNCHANGED <<calls, gram>>

PairCall(j) ==
    /\ run.pos[j] = Len(run.scripts[j]) + 1
    /\ builders' = IF run.ops[j][1] = "first"
                   THEN [builders EXCEPT ![j + 1] = limit(@, 1)] ELSE builders
    /\ calls' = Append(calls, terminalCall(j + 1, run.ops[j]))
    /\ run' = [run EXCEPT !.pos[j] = @ + 1]
    /\ UNCHANGED gram

NextPair ==
    \/ PairTable
    \/ \E j \in 1..2 : PairConfigure(j)
    \/ \E j \in 1..2 : PairCall(j)
    \/ Driver(SmallInputs)

SpecPair == InitPair /\ [][NextPair]_vars

(***************************************************************************)
(* The two variants side by side: instance 2 is a full Builder, instance 3 *)
(* a simple one; both take the same calls, drawn from the operations both  *)
(* define, and the driver gives the simple one's execute the answer it     *)
(* gave the full one's.                                                    *)
(***************************************************************************)
CommonSteps ==
    {<<"where", w[1], w[2], w[3]>> : w \in SmallInputs.wheres}
    \cup {<<"get">>, <<"first">>, <<"delete">>}
    \cup {<<"create", d>> : d \in SmallInputs.datas}
    \cup {<<"update", d>> : d \in SmallInputs.datas}

\* the terminal call t made on the simple instance i
simpleTerminalCall(i, t) ==
    CASE t[1] = "get" ->
            simpleGetEnter(Call(i, "get", builders[i], builders[i], <<>>), builders[i])
      [] t[1] = "first" ->
            simpleGetEnter(Call(i, "first", builders[i], builders[i], <<>>), builders[i])
      [] t[1] = "delete" -> deleteCall(i)
      [] t[1] = "create" -> createCall(i, t[2])
      [] t[1] = "update" -> updateCall(i, t[2])

InitBoth ==
    /\ builders = <<NewBuilder>>
    /\ calls = <<>>
    /\ gram = NoGram
    /\ run \in [script : SeqsUpTo(CommonSteps, MaxScript), op : {<<"get">>}, pos : {0}]

BothSettled2 == \A k \in DOMAIN calls : calls[k].status # "pending"

BothTable ==
    /\ run.pos = 0
    /\ builders' = builders \o <<table("users"), table("users")>>
    /\ run' = [run EXCEPT !.pos = 1]
    /\ UNCHANGED <<calls, gram>>

BothWhere ==
    /\ run.pos \in 1..Len(run.script)
    /\ run.script[run.pos][1] = "where"
    /\ BothSettled2
    /\ builders' = [builders EXCEPT ![2] = fluent(@, run.script[run.pos]),
                                    ![3] = fluent(@, run.script[run.pos])]
    /\ run' = [run EXCEPT !.pos = @ + 1]
    /\ UNCHANGED <<calls, gram>>

BothCall ==
    /\ run.pos \in 1..Len(run.script)
    /\ run.script[run.pos][1] # "where"
    /\ BothSettled2
    /\ builders' = IF run.script[run.pos][1] = "first"
                   THEN [builders EXCEPT ![2] = limit(@, 1)] ELSE builders
    /\ calls' = <<terminalCall(2, run.script[run.pos]),
                  simpleTerminalCall(3, run.script[run.pos])>>
    /\ run' = [run EXCEPT !.pos = @ + 1]
    /\ UNCHANGED gram

\* the simple instance's execute gets the answer the full one's got
BothAnswered ==
    /\ Len(calls) = 2
    /\ calls[1].status # "pending"
    /\ calls[2].status = "pending"
    /\ IF calls[1].status = "DriverError" THEN ExecuteRejects(2)
       ELSE SimpleExecuteResolves(2, calls[1].answers[Len(calls[1].answers)])

NextBoth ==
    \/ BothTable
    \/ BothWhere
    \/ BothCall
    \/ \E rows \in SmallInputs.results : Len(calls) = 2 /\ ExecuteResolves(1, rows)
    \/ Len(calls) = 2 /\ ExecuteRejects(1)
    \/ BothAnswered

SpecBoth == InitBoth /\ [][NextBoth]_vars

(***************************************************************************)
(* Claims                                                                  *)
(***************************************************************************)
Executed(c) == Len(c.log) > 0

Settled(c) == c.status # "pending"

\* C1: in every reachable state, whatever the interleaving of fluent calls,
\* terminal calls and driver answers, each instance's bindings has the length
\* of its wheres and bindings[k] is wheres[k].value.
C1_BindingsMirrorWheres ==
    \A i \in Instances :
        /\ Len(builders[i].bindings) = Len(builders[i].wheres)
        /\ \A k \in 1..Len(builders[i].wheres) :
              builders[i].bindings[k] = builders[i].wheres[k].value

\* two predicates added to an instance after one of its terminal calls returned
C1_Witness ==
    \E k \in DOMAIN calls :
        /\ calls[k].status = "ok"
        /\ Executed(calls[k])
        /\ Len(builders[calls[k].inst].wheres) = 2

\* C2: a terminal call entered on a builder whose table is "" fails with the
\* no-table error and has not called driver.execute.
C2_NoTableFailsFast ==
    \A k \in DOMAIN calls :
        calls[k].before.table = "" =>
            calls[k].status = "NoTable" /\ calls[k].log = <<>>

\* createMany of a non-empty list on the configured application builder
C2_Witness ==
    \E k \in DOMAIN calls :
        /\ calls[k].before.table = ""
        /\ calls[k].op = "createMany"
        /\ Len(calls[k].data) > 0
        /\ Len(calls[k].before.wheres) > 0
        /\ calls[k].status = "NoTable"

Repeat(c) == terminalCall(c.inst, <<c.op, c.data>>)

\* C4: when execute fails in get, first, count, create, update or delete, the
\* instance's fields are those the failed attempt was compiled from, and the
\* same call made again hands execute the same SQL and the same params.
C4_FailedExecuteKeepsState ==
    \A k \in DOMAIN calls :
        /\ calls[k].status = "DriverError"
        /\ calls[k].op \in {"get", "first", "count", "create", "update", "delete"}
        => /\ builders[calls[k].inst] = calls[k].cfg
           /\ Repeat(calls[k]).status = "pending"
           /\ Repeat(calls[k]).sql = calls[k].sql
           /\ Repeat(calls[k]).params = calls[k].params

\* a delete with two predicates whose execute failed
C4_Witness ==
    \E k \in DOMAIN calls :
        /\ calls[k].status = "DriverError"
        /\ calls[k].op = "delete"
        /\ Len(calls[k].cfg.wheres) = 2
        /\ Len(builders[calls[k].inst].bindings) = 2

\* a step that adds an instance adds one, with the fields of a new Builder
\* but its table, and changes no other instance and no call
TableIsFresh ==
    Len(builders') > Len(builders) =>
        /\ Len(builders') = Len(builders) + 1
        /\ \A i \in DOMAIN builders : builders'[i] = builders[i]
        /\ \E name \in SmallInputs.tables :
              builders'[Len(builders')] = [NewBuilder EXCEPT !.table = name]
        /\ calls' = calls

\* every predicate in the SQL a call handed to execute is one of the
\* predicates of the calling instance
NoLeak ==
    \A k \in DOMAIN calls, w \in SmallInputs.wheres :
        /\ Executed(calls[k])
        /\ includes(calls[k].sql, w[1] \o " " \o w[2] \o " $")
        => \E j \in DOMAIN calls[k].cfg.wheres :
              /\ calls[k].cfg.wheres[j].column = w[1]
              /\ calls[k].cfg.wheres[j].operator = w[2]

\* C5: table(name) changes no field of any existing instance and adds an
\* instance with the defaults and table = name; the SQL of an instance holds
\* no predicate of another instance.
C5_TableGivesFreshInstance == [][TableIsFresh]_vars /\ []NoLeak

\* the application builder holds a predicate while a get() on the instance
\* table() gave compiles no WHERE clause
C5_Witness ==
    \E k \in DOMAIN calls :
        /\ calls[k].inst = 2
        /\ calls[k].op = "get"
        /\ Executed(calls[k])
        /\ ~includes(calls[k].sql, "WHERE")
        /\ Len(builders[1].wheres) > 0

\* C6: the second cycle (same script, same terminal call, after the first
\* returned a result) hands execute the SQL and params of the first, execute
\* by execute.
C6_SecondCycleSameSql ==
    Len(calls) = 2 /\ calls[1].status = "ok" =>
        /\ \A k \in 1..Len(calls[2].log) :
              k <= Len(calls[1].log) /\ calls[2].log[k] = calls[1].log[k]
        /\ calls[2].status = "ok" => calls[2].log = calls[1].log

\* a get() after three fluent calls, among them where and orderBy, run twice
C6_Witness ==
    /\ Len(calls) = 2
    /\ calls[2].status = "ok"
    /\ calls[2].op = "get"
    /\ Len(run.script) = 3
    /\ Len(calls[2].cfg.wheres) = 1
    /\ Len(calls[2].cfg.orders) = 1

\* where "$k" stands in sql (not as the head of a longer number)
PlaceholderAt(sql, k) ==
    {p \in Matches(sql, placeholder(k)) :
        LET q == p + Len(placeholder(k)) IN
        ~(q <= Len(sql) /\ IsDigit(SubSeq(sql, q, q)))}

\* sql holds the placeholders $1..$n, each once, in this order, and no other "$"
HasPlaceholders(sql, n) ==
    /\ Cardinality(Matches(sql, "$")) = n
    /\ \A k \in 1..n : Cardinality(PlaceholderAt(sql, k)) = 1
    /\ \A j, k \in 1..n :
          j < k => \A p \in PlaceholderAt(sql, j), q \in PlaceholderAt(sql, k) : p < q

\* text stands in sql right before the placeholder $k
Precedes(sql, text, k) ==
    \A p \in PlaceholderAt(sql, k) : StartsAt(sql, text, p - Len(text))

Predicate(w) == w.column \o " " \o w.operator \o " "

\* the k-th predicate of wheres stands before $(m + k); params m+1.. are its values
WheresBound(sql, params, wheres, m) ==
    /\ Len(params) = m + Len(wheres)
    /\ \A k \in 1..Len(wheres) :
          /\ Precedes(sql, Predicate(wheres[k]), m + k)
          /\ params[m + k] = wheres[k].value

\* the data of the n-th execute of call c
ItemOf(c, n) == IF c.op = "createMany" THEN c.data[n] ELSE c.data

\* C7: every (sql, params) handed to execute holds exactly $1..$N, N the
\* length of params; in get, first, count and delete the i-th where stands at
\* $i with its value at params[i]; in update the SET values come first, in key
\* order, then the where values; in create params are the data's values.
C7_PlaceholdersMatchParams ==
    \A c \in {calls[k] : k \in DOMAIN calls} :
        \A n \in DOMAIN c.log :
            LET sql == c.log[n].sql
                params == c.log[n].params
            IN  /\ HasPlaceholders(sql, Len(params))
                /\ c.op \in {"get", "first", "count", "delete"} =>
                      WheresBound(sql, params, c.cfg.wheres, 0)
                /\ c.op = "update" =>
                      /\ WheresBound(sql, params, c.cfg.wheres, Len(c.data))
                      /\ \A j \in 1..Len(c.data) :
                            /\ Precedes(sql, c.data[j][1] \o " = ", j)
                            /\ params[j] = c.data[j][2]
                /\ c.op \in {"create", "createMany"} =>
                      params = ObjectValues(ItemOf(c, n))

\* an update of two keys with two predicates
C7_Witness ==
    \E k \in DOMAIN calls :
        /\ calls[k].op = "update"
        /\ Executed(calls[k])
        /\ Len(calls[k].data) = 2
        /\ Len(calls[k].cfg.wheres) = 2
        /\ calls[k].cfg.wheres[1] # calls[k].cfg.wheres[2]

\* C8: compileUpdate numbers the SET placeholders 1..m in key order and the
\* WHERE placeholders m+1..m+n in wheres order, writes no WHERE when n = 0 and
\* one WHERE between $m and $(m+1) otherwise, and returns the m SET values.
C8_CompileUpdateNumbering ==
    gram.fn = "compileUpdate" =>
        LET m == Len(gram.data)
            n == Len(gram.wheres)
        IN  /\ HasPlaceholders(gram.sql, m + n)
            /\ \A j \in 1..m : Precedes(gram.sql, gram.data[j][1] \o " = ", j)
            /\ \A k \in 1..n : Precedes(gram.sql, Predicate(gram.wheres[k]), m + k)
            /\ n = 0 => ~includes(gram.sql, "WHERE")
            /\ n > 0 =>
                  /\ Cardinality(Matches(gram.sql, " WHERE ")) = 1
                  /\ \A p \in PlaceholderAt(gram.sql, m) : p < indexOf(gram.sql, " WHERE ")
                  /\ \A p \in PlaceholderAt(gram.sql, m + 1) :
                        indexOf(gram.sql, " WHERE ") < p
            /\ Len(gram.values) = m
            /\ \A j \in 1..m : gram.values[j] = gram.data[j][2]

\* two keys and two predicates
C8_Witness ==
    /\ gram.fn = "compileUpdate"
    /\ Len(gram.data) = 2
    /\ Len(gram.wheres) = 2
    /\ includes(gram.sql, "$4")

\* the text of sql between its first "(" and the ")" that follows
ColumnList(sql) ==
    LET open == indexOf(sql, "(")
        close == CHOOSE p \in Matches(sql, ")") :
                    p > open /\ \A q \in Matches(sql, ")") : q > open => p <= q
    IN  SubSeq(sql, open + 1, close - 1)

\* C9: compileInsert writes len(data) placeholders 1..len(data) after VALUES,
\* lists the keys in data's order and returns data's values in that order; for
\* an empty data it yields INSERT INTO T () VALUES () RETURNING * and no
\* values, and create({}) hands that to execute.
C9_CompileInsert ==
    /\ gram.fn = "compileInsert" =>
          LET n == Len(gram.data) IN
          /\ HasPlaceholders(gram.sql, n)
          /\ \A k \in 1..n :
                /\ indexOf(gram.sql, " VALUES (") > 0
                /\ \A p \in PlaceholderAt(gram.sql, k) : indexOf(gram.sql, " VALUES (") < p
                /\ includes(ColumnList(gram.sql), gram.data[k][1])
                /\ \A j \in 1..(k - 1) :
                      indexOf(ColumnList(gram.sql), gram.data[j][1])
                          < indexOf(ColumnList(gram.sql), gram.data[k][1])
          /\ Len(gram.values) = n
          /\ \A k \in 1..n : gram.values[k] = gram.data[k][2]
          /\ n = 0 =>
                /\ gram.sql = "INSERT INTO " \o gram.table \o " () VALUES () RETURNING *"
                /\ gram.values = <<>>
    /\ \A k \in DOMAIN calls :
          /\ calls[k].op = "create"
          /\ calls[k].data = <<>>
          /\ calls[k].before.table = "users"
          => /\ calls[k].status \in {"pending", "ok"}
             /\ calls[k].log = <<[method |-> "execute",
                                  sql |-> "INSERT INTO users () VALUES () RETURNING *",
                                  params |-> <<>>]>>

\* compileInsert of two keys was called, and a create({}) awaits the driver
C9_Witness ==
    /\ gram.fn = "compileInsert"
    /\ Len(gram.data) = 2
    /\ \E k \in DOMAIN calls :
          /\ calls[k].op = "create"
          /\ calls[k].data = <<>>
          /\ calls[k].status = "pending"

Upper2(direction) == IF direction = "asc" THEN "ASC" ELSE "DESC"

\* the clause keywords of a SELECT in their fixed order
ClauseWords == <<" FROM ", " WHERE ", " ORDER BY ", " LIMIT ", " OFFSET ">>

\* whether the state of field record b asks for the k-th clause
ClauseSet(b, k) ==
    CASE k = 1 -> TRUE
      [] k = 2 -> Len(b.wheres) > 0
      [] k = 3 -> Len(b.orders) > 0
      [] k = 4 -> b.limit # Null
      [] k = 5 -> b.offset # Null

\* C10: the SQL of get() is SELECT [DISTINCT] columns FROM table followed by
\* the WHERE, ORDER BY, LIMIT and OFFSET clauses in that order, each present
\* exactly when its state is set; the ORDER BY terms are in call order, comma
\* separated, upper-cased, ASC when no direction was given; and the README's
\* paged query compiles to the stated text with params [18].
C10_GetClauseOrder ==
    \A c \in {calls[k] : k \in DOMAIN calls} :
        c.op = "get" /\ Executed(c) =>
            LET b == c.cfg
                sql == c.log[1].sql
            IN  /\ StartsAt(sql, IF b.distinct THEN "SELECT DISTINCT " ELSE "SELECT ", 1)
                /\ b.columns = <<"name", "age">> =>
                      includes(sql, "name, age FROM " \o b.table)
                /\ b.columns \in {<<>>, <<"*">>} => includes(sql, "* FROM " \o b.table)
                /\ \A k \in 1..5 :
                      Cardinality(Matches(sql, ClauseWords[k]))
                          = IF ClauseSet(b, k) THEN 1 ELSE 0
                /\ \A j, k \in 1..5 :
                      j < k /\ ClauseSet(b, j) /\ ClauseSet(b, k) =>
                          indexOf(sql, ClauseWords[j]) < indexOf(sql, ClauseWords[k])
                /\ Len(b.orders) > 0 =>
                      includes(sql, " ORDER BY " \o
                          join([k \in 1..Len(b.orders) |->
                                   b.orders[k].column \o " " \o Upper2(b.orders[k].direction)],
                               ", "))
                /\ \A k \in 1..Len(b.orders) :
                      b.orders[k].column = "name" => includes(sql, "name ASC")
                /\ b.limit # Null => includes(sql, " LIMIT " \o ToString(b.limit[1]))
                /\ b.offset # Null => includes(sql, " OFFSET " \o ToString(b.offset[1]))
                /\ ( /\ b.table = "users" /\ b.columns = <<"*">> /\ ~b.distinct
                     /\ b.wheres = <<[column |-> "age", operator |-> ">", value |-> "18"]>>
                     /\ b.orders = <<[column |-> "created_at", direction |-> "desc"]>>
                     /\ b.limit = <<10>> /\ b.offset = <<5>> )
                   => /\ sql = "SELECT * FROM users WHERE age > $1 ORDER BY created_at DESC LIMIT 10 OFFSET 5"
                      /\ c.log[1].params = <<"18">>

\* the README's paged query was handed to execute
C10_Witness ==
    \E k \in DOMAIN calls :
        /\ calls[k].op = "get"
        /\ calls[k].sql =
              "SELECT * FROM users WHERE age > $1 ORDER BY created_at DESC LIMIT 10 OFFSET 5"
        /\ calls[k].params = <<"18">>

\* whether s ends with t
EndsWith(s, t) == Len(t) <= Len(s) /\ StartsAt(s, t, Len(s) - Len(t) + 1)

\* the tail of a first() query: LIMIT 1, then the OFFSET set before the call
FirstTail(c) ==
    IF c.before.offset = Null THEN " LIMIT 1"
    ELSE " LIMIT 1 OFFSET " \o ToString(c.before.offset[1])

\* C11: a first() that reaches execute sends one query, with a single LIMIT
\* clause, ending in LIMIT 1 (followed only by the OFFSET set earlier); when
\* the driver answers it returns the answer's first row, or null, without
\* failing, when the answer is empty.
C11_FirstSendsLimitOne ==
    \A c \in {calls[k] : k \in DOMAIN calls} :
        c.op = "first" =>
            /\ Executed(c) =>
                  /\ EndsWith(c.log[1].sql, FirstTail(c))
                  /\ Cardinality(Matches(c.log[1].sql, " LIMIT ")) = 1
            /\ Len(c.answers) > 0 =>
                  /\ c.status = "ok"
                  /\ Len(c.answers[1]) > 0 =>
                        c.value.kind = "row" /\ c.value.rows = <<c.answers[1][1]>>
                  /\ Len(c.answers[1]) = 0 => c.value.kind = "null"

\* the WHERE clause the accumulated wheres ask for, built from the last
\* predicate backwards
RECURSIVE ExpectedWhere(_, _)
ExpectedWhere(wheres, n) ==
    IF n = 0 THEN ""
    ELSE (IF n = 1 THEN " WHERE " ELSE ExpectedWhere(wheres, n - 1) \o " AND ")
         \o Predicate(wheres[n]) \o placeholder(n)

\* C12: count() hands execute the literal SELECT COUNT... FROM <table>
\* followed by the WHERE clause of the accumulated wheres and nothing else,
\* with the where values as params, whatever select, distinct, orderBy, limit
\* or offset calls preceded it; once it has returned its number every field
\* but table is back at its default.
C12_CountSql ==
    \A c \in {calls[k] : k \in DOMAIN calls} :
        c.op = "count" =>
            /\ Executed(c) =>
                  /\ Len(c.log) = 1
                  /\ c.log[1].sql = "SELECT COUNT(*) as count FROM " \o c.before.table
                                    \o ExpectedWhere(c.before.wheres, Len(c.before.wheres))
                  /\ c.log[1].params =
                        [k \in 1..Len(c.before.wheres) |-> c.before.wheres[k].value]
            /\ c.status = "ok" =>
                  /\ c.value.kind = "number"
                  /\ builders[c.inst] = [NewBuilder EXCEPT !.table = c.before.table]

\* a count that returned after select, distinct, where, orderBy, limit and offset
C12_Witness ==
    \E k \in DOMAIN calls :
        /\ calls[k].op = "count"
        /\ calls[k].status = "ok"
        /\ calls[k].before.columns = <<"name", "age">>
        /\ calls[k].before.distinct
        /\ Len(calls[k].before.wheres) = 1
        /\ Len(calls[k].before.orders) = 1
        /\ calls[k].before.limit # Null
        /\ calls[k].before.offset # Null

\* C13: create(data) hands execute the values of data and nothing else, and
\* SQL without a WHERE (or any other query) clause, whatever was accumulated
\* before; once the driver has answered, the accumulated state is cleared and
\* the call returns element 0 of the answer.
C13_CreateIgnoresQueryState ==
    \A c \in {calls[k] : k \in DOMAIN calls} :
        c.op = "create" =>
            /\ Executed(c) =>
                  /\ Len(c.log) = 1
                  /\ c.log[1].params = [k \in 1..Len(c.data) |-> c.data[k][2]]
                  /\ HasPlaceholders(c.log[1].sql, Len(c.data))
                  /\ StartsAt(c.log[1].sql, "INSERT INTO " \o c.before.table \o " (", 1)
                  /\ \A word \in {"WHERE", " AND ", "ORDER BY", "LIMIT", "OFFSET", "DISTINCT"} :
                        ~includes(c.log[1].sql, word)
            /\ Len(c.answers) > 0 =>
                  /\ c.status = "ok"
                  /\ builders[c.inst] = [NewBuilder EXCEPT !.table = c.before.table]
                  /\ c.value.rows = <<IF c.answers[1] = <<>> THEN "undefined"
                                      ELSE c.answers[1][1]>>

\* a create of two keys that returned its row, after where, orderBy and limit
C13_Witness ==
    \E k \in DOMAIN calls :
        /\ calls[k].op = "create"
        /\ calls[k].status = "ok"
        /\ Len(calls[k].data) = 2
        /\ Len(calls[k].before.wheres) = 1
        /\ Len(calls[k].before.orders) = 1
        /\ calls[k].before.limit # Null
        /\ calls[k].value.rows = <<"r1">>

\* C14: a create whose execute was answered with zero rows fails; it never
\* returns normally without a created row.
C14_CreateFailsOnZeroRows ==
    \A c \in {calls[k] : k \in DOMAIN calls} :
        c.op = "create" /\ Len(c.answers) > 0 /\ c.answers[1] = <<>> =>
            c.status # "ok" /\ c.value.kind = "error"

\* the n-th execute of call c is the INSERT of item: its keys in the column
\* list, one placeholder per key, its values as params
InsertOf(c, n, item) ==
    /\ StartsAt(c.log[n].sql, "INSERT INTO " \o c.before.table \o " (", 1)
    /\ HasPlaceholders(c.log[n].sql, Len(item))
    /\ \A k \in 1..Len(item) : includes(ColumnList(c.log[n].sql), item[k][1])
    /\ c.log[n].params = [k \in 1..Len(item) |-> item[k][2]]

\* the executes of call c that the driver has not answered
Outstanding(c) == Len(c.log) - Len(c.answers)

\* C15: createMany(list) issues the INSERT of element n as its n-th execute,
\* issues each execute only when all earlier ones have been answered (at most
\* one is outstanding), and returns a list as long as the input whose n-th
\* entry is element 0 of the n-th answer.
C15_CreateManySequential ==
    \A c \in {calls[k] : k \in DOMAIN calls} :
        c.op = "createMany" =>
            /\ Len(c.log) <= Len(c.data)
            /\ \A n \in DOMAIN c.log : InsertOf(c, n, c.data[n])
            /\ Outstanding(c) \in {0, 1}
            /\ c.status = "pending" => Outstanding(c) = 1
            /\ c.status = "ok" =>
                  /\ Len(c.log) = Len(c.data)
                  /\ Outstanding(c) = 0
                  /\ c.value.kind = "rows"
                  /\ Len(c.value.rows) = Len(c.data)
                  /\ \A n \in DOMAIN c.data :
                        c.value.rows[n] = IF c.answers[n] = <<>> THEN "undefined"
                                          ELSE c.answers[n][1]

\* a createMany of two different items that returned two rows
C15_Witness ==
    \E k \in DOMAIN calls :
        /\ calls[k].op = "createMany"
        /\ calls[k].status = "ok"
        /\ Len(calls[k].data) = 2
        /\ calls[k].data[1] # calls[k].data[2]
        /\ calls[k].value.rows = <<"r1", "r1">>

\* C16: when the execute of element n of createMany fails, the n - 1 earlier
\* INSERTs have been answered and nothing but INSERTs was sent, no execute
\* follows for a later element, and the call ends with the driver's error and
\* no result list.
C16_CreateManyPartialFailure ==
    \A c \in {calls[k] : k \in DOMAIN calls} :
        c.op = "createMany" /\ Settled(c) /\ Outstanding(c) > 0 =>
            /\ c.status = "DriverError"
            /\ c.value.kind = "error"
            /\ c.value.rows = <<>>
            /\ Outstanding(c) = 1
            /\ Len(c.log) <= Len(c.data)
            /\ \A n \in DOMAIN c.log : InsertOf(c, n, c.data[n])
            /\ Len(c.rest) = Len(c.data) - Len(c.log)

\* the second of two items failed after the first was inserted
C16_Witness ==
    \E k \in DOMAIN calls :
        /\ calls[k].op = "createMany"
        /\ calls[k].status = "DriverError"
        /\ Len(calls[k].data) = 2
        /\ Len(calls[k].log) = 2
        /\ calls[k].answers = <<<<"r1">>>>

\* C17: update of an empty data map on an instance that has a table fails
\* with the no-data usage error, hands nothing to execute, and leaves every
\* field of the instance as it was when the call was made.
C17_EmptyUpdateFailsFast ==
    \A c \in {calls[k] : k \in DOMAIN calls} :
        c.op = "update" /\ c.data = <<>> /\ c.before.table # "" =>
            /\ c.status = "NoData"
            /\ c.value.kind = "error"
            /\ c.log = <<>>
            /\ c.answers = <<>>
            /\ builders[c.inst] = c.before

\* an empty update on an instance with a predicate, an ordering and a limit
C17_Witness ==
    \E k \in DOMAIN calls :
        /\ calls[k].op = "update"
        /\ calls[k].data = <<>>
        /\ calls[k].status = "NoData"
        /\ Len(builders[calls[k].inst].wheres) = 1
        /\ Len(builders[calls[k].inst].bindings) = 1
        /\ Len(builders[calls[k].inst].orders) = 1
        /\ builders[calls[k].inst].limit # Null

SingleQueryOps == {"get", "first", "count", "create", "update", "delete"}

\* C18: a get, first, count, create, update or delete that passes its usage
\* checks makes one driver call, an execute, and no other, also when that
\* execute fails: the call then ends with the driver's error, unanswered and
\* not retried; a call that fails a usage check makes no driver call.
C18_OneExecutePerCall ==
    \A c \in {calls[k] : k \in DOMAIN calls} :
        c.op \in SingleQueryOps =>
            /\ c.status \in {"NoTable", "NoData"} => c.log = <<>>
            /\ c.status \notin {"NoTable", "NoData"} =>
                  /\ Len(c.log) = 1
                  /\ c.log[1].method = "execute"
                  /\ c.log[1].sql = c.sql /\ c.sql # ""
            /\ c.status = "DriverError" =>
                  /\ c.answers = <<>>
                  /\ c.value = [NoValue EXCEPT !.kind = "error"]
            /\ Len(c.answers) <= 1

\* an update with a predicate whose execute failed
C18_Witness ==
    \E k \in DOMAIN calls :
        /\ calls[k].op = "update"
        /\ calls[k].status = "DriverError"
        /\ Len(calls[k].log) = 1
        /\ Len(calls[k].before.wheres) = 1

\* no call fails for what earlier calls left behind: an instance made by
\* table() never lacks its table, the no-data error comes only from an empty
\* update, and the only other failures come from the driver's answer
NoClosedState ==
    \A c \in {calls[k] : k \in DOMAIN calls} :
        /\ c.status \in {"pending", "ok", "NoTable", "NoData", "DriverError", "TypeError"}
        /\ c.status = "NoTable" => c.inst = 1 /\ c.log = <<>>
        /\ c.status = "NoData" => c.op = "update" /\ c.data = <<>>
        /\ c.status = "TypeError" =>
              c.op = "count" /\ c.answers # <<>> /\ c.answers[Len(c.answers)] = <<>>

BothSettled == Len(calls) = 2 /\ Settled(calls[1]) /\ Settled(calls[2])

\* C19: when the driver answers every execute, the first terminal call
\* returns or fails, and whichever it did the instance then takes the whole
\* script of fluent calls and the terminal call again, and that call returns
\* or fails too; no call is refused because of an earlier one.
C19_NoClosedState == <>BothSettled /\ []NoClosedState

\* the instance was used again after a failed call and returned a result
C19_Witness ==
    /\ Len(calls) = 2
    /\ calls[1].status = "DriverError"
    /\ calls[2].status = "ok"
    /\ Len(run.script) = 3
    /\ Len(calls[2].before.wheres) = 2

\* C20: two runs that make the same calls with other values hand execute
\* the same SQL text, execute by execute; each value of the one run stands in
\* params where the other run has its own, and in no SQL text.
C20_ValuesOnlyInParams ==
    Len(calls) = 2 =>
        /\ (calls[1].log = <<>>) <=> (calls[2].log = <<>>)
        /\ \A n \in DOMAIN calls[1].log \cap DOMAIN calls[2].log :
              LET one == calls[1].log[n]
                  two == calls[2].log[n]
              IN  /\ one.sql = two.sql
                  /\ Len(one.params) = Len(two.params)
                  /\ \A k \in DOMAIN one.params :
                        /\ two.params[k] = OtherValue(one.params[k])
                        /\ ~includes(two.sql, two.params[k])
                        /\ ~includes(two.sql, " OR ")

\* an update of one key under two predicates, executed in both runs
C20_Witness ==
    /\ Len(calls) = 2
    /\ calls[1].op = "update"
    /\ Len(calls[1].data) = 1
    /\ Len(calls[1].before.wheres) = 2
    /\ Executed(calls[1]) /\ Executed(calls[2])
    /\ calls[1].params # calls[2].params

\* the fields of a fresh instance on table tbl after the first n calls of script
RECURSIVE Configured(_, _, _)
Configured(tbl, script, n) ==
    IF n = 0 THEN [NewBuilder EXCEPT !.table = tbl]
    ELSE fluent(Configured(tbl, script, n - 1), script[n])

\* what terminal call t hands its n-th execute when made alone on fields b
AloneExecute(t, b, n) ==
    CASE t[1] = "get" -> [method |-> "execute", sql |-> getSql(b), params |-> b.bindings]
      [] t[1] = "first" ->
            [method |-> "execute", sql |-> getSql(limit(b, 1)), params |-> b.bindings]
      [] t[1] = "count" ->
            [method |-> "execute", sql |-> countSql(b), params |-> b.bindings]
      [] t[1] = "delete" ->
            [method |-> "execute", sql |-> compileDelete(b.table, b.wheres),
             params |-> b.bindings]
      [] t[1] = "create" ->
            [method |-> "execute", sql |-> compileInsert(b.table, t[2]).sql,
             params |-> ObjectValues(t[2])]
      [] t[1] = "update" ->
            [method |-> "execute", sql |-> compileUpdate(b.table, t[2], b.wheres).sql,
             params |-> ObjectValues(t[2]) \o b.bindings]
      [] t[1] = "createMany" ->
            [method |-> "execute", sql |-> compileInsert(b.table, t[2][n]).sql,
             params |-> ObjectValues(t[2][n])]

\* whether terminal call t made alone reaches execute at all
AloneExecutes(t) ==
    CASE t[1] = "update" -> t[2] # <<>>
      [] t[1] = "createMany" -> t[2] # <<>>
      [] OTHER -> TRUE

\* the calls made on instance i
CallsOf(i) == {k \in DOMAIN calls : calls[k].inst = i}

\* C21: of two instances made by table() from one root and used at the same
\* time, each has at every moment the fields its own calls gave it, each
\* terminal call hands execute what it would hand when made alone, and the
\* reset of one call changes neither the other instance nor the root.
C21_InstancesDoNotInterfere ==
    Len(builders) = 3 =>
        /\ builders[1] = NewBuilder
        /\ \A j \in 1..2 :
              LET i == j + 1
                  script == run.scripts[j]
                  b0 == Configured(PairTables[j], script, Len(script))
              IN  IF run.pos[j] <= Len(script) + 1
                  THEN /\ CallsOf(i) = {}
                       /\ builders[i] = Configured(PairTables[j], script, run.pos[j] - 1)
                  ELSE /\ Cardinality(CallsOf(i)) = 1
                       /\ \A k \in CallsOf(i) :
                             /\ calls[k].before = b0
                             /\ (calls[k].log # <<>>) <=> AloneExecutes(run.ops[j])
                             /\ \A n \in DOMAIN calls[k].log :
                                   calls[k].log[n] = AloneExecute(run.ops[j], b0, n)
                             /\ builders[i] =
                                   IF calls[k].answers # <<>>
                                   THEN [NewBuilder EXCEPT !.table = PairTables[j]]
                                   ELSE IF calls[k].op = "first" THEN limit(b0, 1)
                                   ELSE b0

\* both calls await the driver at once, each instance holding its own predicate
C21_Witness ==
    /\ Len(calls) = 2
    /\ calls[1].inst # calls[2].inst
    /\ calls[1].status = "pending" /\ calls[2].status = "pending"
    /\ Len(builders[2].wheres) = 1 /\ Len(builders[3].wheres) = 1
    /\ builders[2].wheres # builders[3].wheres

\* C22: on the same calls the full and the simple variant hand execute the
\* same SQL and params, return the same, and hold the same wheres and
\* bindings.
C22_SimpleIsSubset ==
    /\ Len(builders) = 3 /\ BothSettled2 =>
          /\ builders[2].wheres = builders[3].wheres
          /\ builders[2].bindings = builders[3].bindings
    /\ Len(calls) = 2 =>
          /\ calls[1].log = calls[2].log
          /\ Settled(calls[1]) /\ Settled(calls[2]) =>
                calls[1].status = calls[2].status /\ calls[1].value = calls[2].value


\* the data {name: 'Jane', age: 31}
JaneData == <<<<"name", "'Jane'">>, <<"age", "31">>>>

\* C23: with no accumulated where, the SQL get, first, count, update and
\* delete hand to execute holds no WHERE at all: update of {name, age} on
\* users is exactly UPDATE users SET name = $1, age = $2 with the two values
\* as params, and delete is exactly DELETE FROM <table>; with n wheres the
\* DELETE text carries the n predicates with the placeholders $1..$n in order.
C23_NoWhereWithoutPredicates ==
    \A c \in {calls[k] : k \in DOMAIN calls} :
        \A n \in DOMAIN c.log :
            LET sql == c.log[n].sql
                params == c.log[n].params
            IN  /\ c.op \in {"get", "first", "count", "update", "delete"}
                   /\ Len(c.cfg.wheres) = 0 => ~includes(sql, "WHERE")
                /\ c.op = "update" /\ Len(c.cfg.wheres) = 0
                   /\ c.cfg.table = "users" /\ c.data = JaneData =>
                      /\ sql = "UPDATE users SET name = $1, age = $2"
                      /\ params = <<"'Jane'", "31">>
                /\ c.op = "delete" =>
                      /\ sql = "DELETE FROM " \o c.cfg.table
                               \o ExpectedWhere(c.cfg.wheres, Len(c.cfg.wheres))
                      /\ HasPlaceholders(sql, Len(c.cfg.wheres))
                      /\ Len(c.cfg.wheres) = 0 => params = <<>>

\* the update of {name, age} on users with no where has reached the driver
C23_Witness ==
    \E k \in DOMAIN calls :
        /\ calls[k].op = "update"
        /\ Executed(calls[k])
        /\ calls[k].cfg.table = "users"
        /\ calls[k].data = JaneData
        /\ Len(calls[k].cfg.wheres) = 0

\* a step that changes an instance's projection list either puts one of the
\* lists a select call can pass in its place, touching no other field, or
\* puts the default back
SelectReplaces ==
    \A i \in DOMAIN builders :
        builders'[i].columns # builders[i].columns =>
            \/ /\ builders'[i].columns \in RichInputs.selects
               /\ builders'[i] = [builders[i] EXCEPT !.columns = builders'[i].columns]
            \/ builders'[i].columns = <<"*">>

\* the projection get() and first() hand over is the list joined by ", ",
\* or the star when the list is empty
SelectProjection ==
    \A c \in {calls[k] : k \in DOMAIN calls} :
        c.op \in {"get", "first"} /\ Executed(c) =>
            LET cols == IF Len(c.cfg.columns) = 0 THEN "*"
                        ELSE IF Len(c.cfg.columns) = 1 THEN c.cfg.columns[1]
                        ELSE c.cfg.columns[1] \o ", " \o c.cfg.columns[2]
                head == IF c.cfg.distinct THEN "SELECT DISTINCT " ELSE "SELECT "
            IN  /\ Len(c.cfg.columns) <= 2
                /\ StartsAt(c.log[1].sql, head \o cols \o " FROM " \o c.cfg.table, 1)

\* select with no columns leaves the empty list, select("*") the list of
\* the star alone
SelectNoneIsNotStar ==
    \A i \in DOMAIN builders :
        /\ select(builders[i], <<>>).columns = <<>>
        /\ select(builders[i], <<"*">>).columns = <<"*">>
        /\ select(builders[i], <<>>) # select(builders[i], <<"*">>)

\* C24: select replaces the projection list (the last select wins); select
\* with no columns stores the empty list, which is not the list select("*")
\* stores, so the list is the default star only through construction, reset
\* or an explicit select("*"); the SQL of get is SELECT <list joined by ", ">
\* FROM <table>, with the star in place of an empty list.
C24_SelectReplacesProjection ==
    [][SelectReplaces]_vars /\ [](SelectProjection /\ SelectNoneIsNotStar)

\* a get sent after select() with no columns: the list is empty and the SQL
\* projects the star
C24_Witness ==
    \E k \in DOMAIN calls :
        /\ calls[k].op = "get"
        /\ Executed(calls[k])
        /\ calls[k].cfg.columns = <<>>
        /\ StartsAt(calls[k].log[1].sql, "SELECT * FROM users", 1)

\* a set distinct flag is cleared only by a reset
DistinctStays ==
    \A i \in DOMAIN builders :
        builders[i].distinct /\ ~builders'[i].distinct =>
            builders'[i] = [NewBuilder EXCEPT !.table = builders[i].table]

\* one distinct() call and two leave the same fields
DistinctIdempotent ==
    \A i \in DOMAIN builders :
        /\ distinct(builders[i]).distinct
        /\ distinct(distinct(builders[i])) = distinct(builders[i])
        /\ distinct(builders[i]) = [builders[i] EXCEPT !.distinct = TRUE]

\* the SQL of get and first with the flag set is the SQL without it with
\* DISTINCT put in once, right after the leading SELECT
DistinctSql ==
    \A c \in {calls[k] : k \in DOMAIN calls} :
        c.op \in {"get", "first"} /\ Executed(c) =>
            LET sql == c.log[1].sql
                plain == getSql([c.cfg EXCEPT !.distinct = FALSE])
            IN  IF c.cfg.distinct
                THEN /\ StartsAt(sql, "SELECT DISTINCT ", 1)
                     /\ Cardinality(Matches(sql, "DISTINCT")) = 1
                     /\ StartsAt(plain, "SELECT ", 1)
                     /\ SubSeq(sql, Len("SELECT DISTINCT ") + 1, Len(sql))
                           = SubSeq(plain, Len("SELECT ") + 1, Len(plain))
                ELSE /\ ~includes(sql, "DISTINCT")
                     /\ sql = plain

\* C25: distinct() is idempotent (one call or several leave the same state,
\* and the flag stays set until a reset); with the flag set the SQL of get
\* begins SELECT DISTINCT, holds DISTINCT exactly once and is otherwise the
\* SQL without distinct; with the flag unset no DISTINCT is written.
C25_DistinctIdempotent ==
    [][DistinctStays]_vars /\ [](DistinctIdempotent /\ DistinctSql)

\* a distinct get with a projection, a predicate and an ordering
C25_Witness ==
    \E k \in DOMAIN calls :
        /\ calls[k].op = "get"
        /\ Executed(calls[k])
        /\ calls[k].cfg.distinct
        /\ calls[k].cfg.columns = <<"name", "age">>
        /\ Len(calls[k].cfg.wheres) = 1
        /\ Len(calls[k].cfg.orders) = 1

\* a step that changes an instance's limit (offset) either sets it to a
\* number a call can pass, touching no other field, or is a reset
LimitOverwrites ==
    \A i \in DOMAIN builders :
        /\ builders'[i].limit # builders[i].limit =>
              \/ /\ builders'[i].limit \in {<<n>> : n \in RichInputs.limits \cup {1}}
                 /\ builders'[i] = [builders[i] EXCEPT !.limit = builders'[i].limit]
              \/ builders'[i] = [NewBuilder EXCEPT !.table = builders[i].table]
        /\ builders'[i].offset # builders[i].offset =>
              \/ /\ builders'[i].offset \in {<<n>> : n \in RichInputs.offsets}
                 /\ builders'[i] = [builders[i] EXCEPT !.offset = builders'[i].offset]
              \/ builders'[i] = [NewBuilder EXCEPT !.table = builders[i].table]

\* the decimal text of an integer as a template literal writes it
NumberText(n) == IF n < 0 THEN "-" \o ToString(0 - n) ELSE ToString(n)

\* get writes LIMIT n and OFFSET n for a set field, whatever n is, and
\* neither for an unset one
LimitOffsetSql ==
    \A c \in {calls[k] : k \in DOMAIN calls} :
        c.op \in {"get", "first"} /\ Executed(c) =>
            LET sql == c.log[1].sql
                lim == IF c.cfg.limit = Null THEN ""
                       ELSE " LIMIT " \o NumberText(c.cfg.limit[1])
                off == IF c.cfg.offset = Null THEN ""
                       ELSE " OFFSET " \o NumberText(c.cfg.offset[1])
            IN  /\ EndsWith(sql, lim \o off)
                /\ Cardinality(Matches(sql, " LIMIT ")) = (IF c.cfg.limit = Null THEN 0 ELSE 1)
                /\ Cardinality(Matches(sql, " OFFSET ")) = (IF c.cfg.offset = Null THEN 0 ELSE 1)

\* C26: limit(n) and offset(n) overwrite the field with any integer given;
\* get writes LIMIT n / OFFSET n whenever the field is set, for 0 and for
\* negative n too, and leaves the clause out only when the field is unset.
C26_LimitOffsetOverwrite == [][LimitOverwrites]_vars /\ []LimitOffsetSql

\* a get sent with limit -1 and offset 0
C26_Witness ==
    \E k \in DOMAIN calls :
        /\ calls[k].op = "get"
        /\ Executed(calls[k])
        /\ calls[k].cfg.limit = <<-1>>
        /\ calls[k].cfg.offset = <<0>>
        /\ EndsWith(calls[k].log[1].sql, " LIMIT -1 OFFSET 0")

\* no step changes the table of an instance that exists
TableKept ==
    \A i \in DOMAIN builders :
        /\ i \in DOMAIN builders'
        /\ builders'[i].table = builders[i].table

\* C27: no fluent call, no terminal call, successful (with its reset) or
\* failed, changes the table of the instance it is made on: each instance
\* keeps the table that table() gave it, and the constructed root keeps the
\* empty one.
C27_TableNeverChanges == [][TableKept]_vars /\ [](builders[1].table = "")

\* a get on users has returned and its reset has cleared the predicate,
\* the instance still being bound to users
C27_Witness ==
    \E k \in DOMAIN calls :
        /\ calls[k].op = "get"
        /\ calls[k].status = "ok"
        /\ Len(calls[k].before.wheres) = 1
        /\ calls[k].before.table = "users"
        /\ builders[calls[k].inst].wheres = <<>>
        /\ builders[calls[k].inst].table = "users"

\* C28: a terminal call rejected for want of a table leaves every field of
\* the query state (columns, wheres, orders, limit, offset, distinct,
\* bindings) as it was when the call was made, whichever of get, first,
\* count, create, createMany, update and delete it is.
C28_NoTableLeavesState ==
    \A c \in {calls[k] : k \in DOMAIN calls} :
        c.status = "NoTable" => builders[c.inst] = c.before

\* C29: createMany of an empty list on an instance with a table returns the
\* empty list, calls execute not once and resets nothing: the instance holds
\* the configuration it had before the call, and a get made next hands the
\* driver the SQL and the params of that configuration.
C29_CreateManyEmptyKeepsState ==
    \A c \in {calls[k] : k \in DOMAIN calls} :
        c.op = "createMany" /\ Len(c.data) = 0 /\ c.before.table # "" =>
            /\ c.status = "ok"
            /\ c.value = [kind |-> "rows", rows |-> <<>>, num |-> <<>>]
            /\ c.log = <<>>
            /\ builders[c.inst] = c.before
            /\ getCall(c.inst).log =
                  <<[method |-> "execute", sql |-> getSql(c.before),
                     params |-> c.before.bindings]>>
            /\ \A j \in 1..Len(c.before.wheres) :
                  includes(getCall(c.inst).log[1].sql, Predicate(c.before.wheres[j]))

\* createMany of the empty list has returned on an instance configured with
\* a projection, distinct, a predicate, an ordering, a limit and an offset
C29_Witness ==
    \E k \in DOMAIN calls :
        /\ calls[k].op = "createMany"
        /\ Len(calls[k].data) = 0
        /\ calls[k].status = "ok"
        /\ calls[k].before.columns = <<"name", "age">>
        /\ calls[k].before.distinct
        /\ Len(calls[k].before.wheres) = 1
        /\ Len(calls[k].before.orders) = 1
        /\ calls[k].before.limit # Null
        /\ calls[k].before.offset # Null

\* C30: count() resets when execute returns and reads the count of the
\* first row after that: answered with zero rows it fails, the instance
\* already back at its defaults (table kept); rejected by execute it fails
\* with the instance as it was before the call.
C30_CountResetsBeforeReading ==
    \A c \in {calls[k] : k \in DOMAIN calls} :
        c.op = "count" =>
            /\ c.answers = <<<<>>>> =>
                  /\ c.status = "TypeError"
                  /\ c.value.kind = "error"
                  /\ builders[c.inst] = [NewBuilder EXCEPT !.table = c.before.table]
            /\ c.status = "TypeError" => c.answers = <<<<>>>>
            /\ c.status = "DriverError" =>
                  /\ c.answers = <<>>
                  /\ builders[c.inst] = c.before

\* a count with a predicate was answered with no rows: it has failed and
\* the predicate is gone
C30_Witness ==
    \E k \in DOMAIN calls :
        /\ calls[k].op = "count"
        /\ calls[k].status = "TypeError"
        /\ Len(calls[k].before.wheres) = 1
        /\ builders[calls[k].inst].wheres = <<>>
        /\ builders[calls[k].inst].bindings = <<>>

\* C31: the params list the driver holds for a suspended call is the list
\* as it was handed over with the SQL: no configuration call made on the
\* instance during the suspension changes it, whichever of get, first, count,
\* delete, update, create and createMany the call is.
C31_ParamsAreSnapshot ==
    \A c \in {calls[k] : k \in DOMAIN calls} :
        c.status = "pending" => c.params = c.log[Len(c.log)].params

\* a step in which a suspended call returns leaves its instance at the
\* defaults, whatever the instance held before the step, turns no call into
\* a failed one, and the get compiled next on the instance is the bare
\* SELECT on its table with no params
SuspendedConfigurationDiscarded ==
    \A k \in DOMAIN calls :
        /\ calls[k].status = "pending"
        /\ Len(calls') = Len(calls)
        /\ calls'[k].status = "ok"
        => LET i == calls[k].inst
               b == builders'[i]
           IN  /\ b = [NewBuilder EXCEPT !.table = builders[i].table]
               /\ getSql(b) = "SELECT * FROM " \o builders[i].table
               /\ b.bindings = <<>>
               /\ \A j \in DOMAIN calls \ {k} : calls'[j].status = calls[j].status

\* C32: what is configured on an instance while one of its terminal calls
\* awaits execute is gone once that call returns successfully and resets:
\* predicates, orderings, limit, offset, projection and distinct flag added
\* during the suspension are not in the next query compiled on the instance,
\* and the call returns as a success.
C32_SuspendedConfigurationDiscarded == [][SuspendedConfigurationDiscarded]_vars

\* a get has returned whose params grew by a where() made while it was
\* suspended, and the instance holds no predicate
C32_Witness ==
    \E k \in DOMAIN calls :
        /\ calls[k].op = "get"
        /\ calls[k].status = "ok"
        /\ Len(calls[k].params) > Len(calls[k].log[1].params)
        /\ builders[calls[k].inst] = [NewBuilder EXCEPT !.table = calls[k].before.table]
====
